---- MODULE Spec2Model ----
(***************************************************************************)
(* Isis and Osiris: the Game class of IsisAndOsiris.py as a state machine. *)
(* One Game object; every public method is an action that records what    *)
(* the call returned or raised in `ret`.                                   *)
(***************************************************************************)
EXTENDS Integers, Sequences, FiniteSets, TLC

VARIABLES
    constructed,    \* TRUE once Game.__init__ has returned normally
    board,          \* self.board: cell <<x, y>> -> content
    boardlen,       \* self.boardlen
    cur_player,     \* self.cur_player
    players,        \* self.players: player -> [Stones, Tiles]
    players_order,  \* insertion order of the keys of self.players
    tiles,          \* self.tiles: tile value -> count
    ret,            \* outcome of the last call: [op, raised, value]
    nmoves,         \* successful play_move calls so far
    nadds           \* successful add_players calls since construction

vars == <<constructed, board, boardlen, cur_player, players, players_order,
          tiles, ret, nmoves, nadds>>

\* the counters that bound the model
counters == <<nmoves, nadds>>

\* what play_move and add_players may write
gamevars == <<board, boardlen, cur_player, players, players_order, tiles>>

-----------------------------------------------------------------------------
(* Program constants *)

MAX_TILE_VALUE == 4

DEFAULT_BOARDLEN == 8

-----------------------------------------------------------------------------
(* Bounds of the model *)

\* largest board side length a game is played on
MaxBoardLen == 4

\* the tile supply is derived for board side lengths up to 4 times this
MaxSupplyQuarter == 12

\* successful play_move calls on one game
MaxMoves == 16

\* successful add_players calls on one game, after its construction
MaxAdds == 1

-----------------------------------------------------------------------------
(* Python values *)

None == "None"

\* instances of Player (they have a play method)
PlayerObjs == {"P1", "P2", "P3"}

\* an object without a play method (class NoPlayer of the tests)
NoPlayer == "NoPlayer"

\* hasattr(p, 'play')
HasPlay(p) == p \in PlayerObjs

\* truth value of an argument: None is falsy, any object is truthy
Truthy(p) == p # None

\* contents of a board cell, by Python type
EmptyCell == [kind |-> "None", owner |-> None, value |-> 0]

Stone(p) == [kind |-> "Player", owner |-> p, value |-> 0]

Tile(v) == [kind |-> "int", owner |-> None, value |-> v]

\* values a call returns: None, a bool, a dict keyed by players
PyNone == [type |-> "NoneType", truth |-> FALSE, items |-> <<>>]

PyBool(b) == [type |-> "bool", truth |-> b, items |-> <<>>]

PyDict(d) == [type |-> "dict", truth |-> DOMAIN d # {}, items |-> d]

\* the outcome of a call
Returned(op, v) == [op |-> op, raised |-> "none", value |-> v]

Raised(op, e) == [op |-> op, raised |-> e, value |-> PyNone]

-----------------------------------------------------------------------------
(* Helpers over dicts *)

RECURSIVE SumOver(_, _)
\* sum(f[k] for k in S)
SumOver(f, S) ==
    IF S = {} THEN 0
    ELSE LET k == CHOOSE k \in S : TRUE IN f[k] + SumOver(f, S \ {k})

\* sum(d.values())
SumValues(d) == SumOver(d, DOMAIN d)

\* numpy.full((boardlen, boardlen), None)
EmptyBoard(n) == [c \in (0 .. n - 1) \X (0 .. n - 1) |-> EmptyCell]

-----------------------------------------------------------------------------
(* reset_game: derives self.tiles from self.boardlen *)

\* mutant: the index i is taken to start at 1
TileDivisor_one_based(i) == 2 * (MAX_TILE_VALUE - i + 1)

\* 2 * (self.MAX_TILE_VALUE - i)
TileDivisor(i) == 2 * (MAX_TILE_VALUE - i)

\* mutant: only the positive tiles are deducted
TilesLeft_positive(num_items, t) ==
    num_items - SumOver(t, {v \in DOMAIN t : v > 0})

\* mutant: tiles_left is never updated
TilesLeft_stale(num_items, t) == num_items

\* tiles_left = num_items - sum(self.tiles.values())
TilesLeft(num_items, t) == num_items - SumValues(t)

RECURSIVE reset_loop(_, _, _)
\* the for loop of reset_game from index i on, with self.tiles = t
reset_loop(i, t, num_items) ==
    IF i >= MAX_TILE_VALUE THEN t
    ELSE LET v == i + 1
             n == TilesLeft(num_items, t) \div TileDivisor(i)
         IN reset_loop(i + 1, (v :> n) @@ (-v :> n) @@ t, num_items)

\* self.tiles after reset_game() on a game of side length n
reset_game(n) == reset_loop(0, <<>>, (n * n) \div 4)

-----------------------------------------------------------------------------
(* add_players *)

\* the keys of a dict after d[key] = ...: an existing key keeps its place
KeysAfterSet(order, key) ==
    IF \E i \in 1 .. Len(order) : order[i] = key THEN order ELSE Append(order, key)

\* mutant: half of the cells in stones
InitialRecord_half(n, t) == [Stones |-> (n * n) \div 2, Tiles |-> t]

\* mutant: one stone short
InitialRecord_short(n, t) == [Stones |-> ((n * n) \div 4) - 1, Tiles |-> t]

\* {'Stones': self.boardlen ** 2 // 4, 'Tiles': dict(self.tiles)}
InitialRecord(n, t) == [Stones |-> (n * n) \div 4, Tiles |-> t]

\* the exception add_players raises for these arguments, or "none"
add_players_error(t, player1, player2) ==
    IF DOMAIN t = {} THEN "TypeError"
    ELSE IF ~HasPlay(player1) \/ ~HasPlay(player2) THEN "ValueError"
    ELSE "none"

\* self.players after the loop over (player1, player2)
add_players_records(pl, n, t, player1, player2) ==
    (player2 :> InitialRecord(n, t)) @@ (player1 :> InitialRecord(n, t)) @@ pl

\* the keys of self.players after the loop over (player1, player2)
add_players_order(order, player1, player2) ==
    KeysAfterSet(KeysAfterSet(order, player1), player2)

\* mutant: each player is checked in the loop that registers it
add_players_late_check(player1, player2) ==
    /\ constructed
    /\ LET e == add_players_error(tiles, player1, player2) IN
       IF e = "TypeError" \/ (e # "none" /\ ~HasPlay(player1))
       THEN /\ ret' = Raised("add_players", e)
            /\ UNCHANGED <<constructed, gamevars, counters>>
       ELSE IF e # "none"
       THEN /\ cur_player' = player1
            /\ players' = (player1 :> InitialRecord(boardlen, tiles)) @@ players
            /\ players_order' = KeysAfterSet(players_order, player1)
            /\ ret' = Raised("add_players", e)
            /\ UNCHANGED <<constructed, board, boardlen, tiles, counters>>
       ELSE /\ nadds < MaxAdds
            /\ cur_player' = player1
            /\ players' = add_players_records(players, boardlen, tiles,
                                              player1, player2)
            /\ players_order' = add_players_order(players_order, player1, player2)
            /\ ret' = Returned("add_players", PyNone)
            /\ nadds' = nadds + 1
            /\ UNCHANGED <<constructed, board, boardlen, tiles, nmoves>>

add_players(player1, player2) ==
    /\ constructed
    /\ LET e == add_players_error(tiles, player1, player2) IN
       IF e # "none"
       THEN /\ ret' = Raised("add_players", e)
            /\ UNCHANGED <<constructed, gamevars, counters>>
       ELSE /\ nadds < MaxAdds
            /\ cur_player' = player1
            /\ players' = add_players_records(players, boardlen, tiles,
                                              player1, player2)
            /\ players_order' = add_players_order(players_order, player1, player2)
            /\ ret' = Returned("add_players", PyNone)
            /\ nadds' = nadds + 1
            /\ UNCHANGED <<constructed, board, boardlen, tiles, nmoves>>

-----------------------------------------------------------------------------
(* Game.__init__ *)

\* the exception Game(n, player1, player2) raises, or "none"
Game_init_error(n, player1, player2) ==
    IF n % 4 # 0 THEN "ValueError"            \* boardlen must be a multiple of 4
    ELSE IF n < 0 THEN "ValueError"           \* numpy.full: negative dimensions
    ELSE add_players_error(reset_game(n), player1, player2)

Game_init(n, player1, player2) ==
    /\ ~constructed
    /\ LET e == Game_init_error(n, player1, player2) IN
       IF e # "none"
       THEN /\ ret' = Raised("Game", e)
            /\ UNCHANGED <<constructed, gamevars, counters>>
       ELSE /\ constructed' = TRUE
            /\ board' = EmptyBoard(n)
            /\ boardlen' = n
            /\ tiles' = reset_game(n)
            /\ cur_player' = player1
            /\ players' = add_players_records(<<>>, n, reset_game(n),
                                              player1, player2)
            /\ players_order' = add_players_order(<<>>, player1, player2)
            /\ ret' = Returned("Game", PyNone)
            /\ UNCHANGED counters

\* g.reset_game() on a constructed game
ResetGame ==
    /\ constructed
    /\ tiles' = reset_game(boardlen)
    /\ ret' = Returned("reset_game", PyNone)
    /\ UNCHANGED <<constructed, board, boardlen, cur_player, players,
                   players_order, counters>>

-----------------------------------------------------------------------------
(* play_move *)

\* numpy accepts index i on an axis of length n iff -n <= i < n
IndexOk(n, i) == -n <= i /\ i < n

\* the cell index i denotes: a negative index counts from the end
IndexCell(n, i) == IF i < 0 THEN i + n ELSE i

\* the cell self.board[position] reads and writes
CellOf(n, position) == <<IndexCell(n, position[1]), IndexCell(n, position[2])>>

\* mutant: the item is checked before the cell
play_move_error_item_first(b, n, rec, position, item) ==
    IF ~(IndexOk(n, position[1]) /\ IndexOk(n, position[2]))
    THEN "IndexError"
    ELSE IF item = 0 /\ rec.Stones <= 0
    THEN "ValueError: no stones left"
    ELSE IF item # 0 /\ item \notin DOMAIN rec.Tiles
    THEN "ValueError: not a valid tile value"
    ELSE IF item # 0 /\ rec.Tiles[item] <= 0
    THEN "ValueError: no tiles with that value"
    ELSE IF b[CellOf(n, position)].kind # "None"
    THEN "ValueError: already taken"
    ELSE "none"

\* mutant: the number of tiles left is never checked
play_move_error_tiles_unchecked(b, n, rec, position, item) ==
    IF ~(IndexOk(n, position[1]) /\ IndexOk(n, position[2]))
    THEN "IndexError"
    ELSE IF b[CellOf(n, position)].kind # "None"
    THEN "ValueError: already taken"
    ELSE IF item = 0 /\ rec.Stones <= 0
    THEN "ValueError: no stones left"
    ELSE IF item # 0 /\ item \notin DOMAIN rec.Tiles
    THEN "ValueError: not a valid tile value"
    ELSE "none"

\* mutant: the last tile of a value can be played once more
play_move_error_tiles_off_by_one(b, n, rec, position, item) ==
    IF ~(IndexOk(n, position[1]) /\ IndexOk(n, position[2]))
    THEN "IndexError"
    ELSE IF b[CellOf(n, position)].kind # "None"
    THEN "ValueError: already taken"
    ELSE IF item = 0 /\ rec.Stones <= 0
    THEN "ValueError: no stones left"
    ELSE IF item # 0 /\ item \notin DOMAIN rec.Tiles
    THEN "ValueError: not a valid tile value"
    ELSE IF item # 0 /\ rec.Tiles[item] < 0
    THEN "ValueError: no tiles with that value"
    ELSE "none"

\* the exception play_move raises, or "none" (the checks in the code's order)
play_move_error(b, n, rec, position, item) ==
    IF ~(IndexOk(n, position[1]) /\ IndexOk(n, position[2]))
    THEN "IndexError"
    ELSE IF b[CellOf(n, position)].kind # "None"
    THEN "ValueError: already taken"
    ELSE IF item = 0 /\ rec.Stones <= 0
    THEN "ValueError: no stones left"
    ELSE IF item # 0 /\ item \notin DOMAIN rec.Tiles
    THEN "ValueError: not a valid tile value"
    ELSE IF item # 0 /\ rec.Tiles[item] <= 0
    THEN "ValueError: no tiles with that value"
    ELSE "none"

\* the cell content a move writes
PlacedItem(player, item) == IF item = 0 THEN Stone(player) ELSE Tile(item)

\* mutant: a tile move takes a stone as well
RecordAfterMove_both(rec, item) ==
    IF item = 0
    THEN [rec EXCEPT !.Stones = @ - 1]
    ELSE [rec EXCEPT !.Stones = @ - 1, !.Tiles[item] = @ - 1]

\* mutant: a tile move does not take the tile from the player
RecordAfterMove_tile_kept(rec, item) ==
    IF item = 0
    THEN [rec EXCEPT !.Stones = @ - 1]
    ELSE rec

\* the current player's record after the move
RecordAfterMove(rec, item) ==
    IF item = 0
    THEN [rec EXCEPT !.Stones = @ - 1]
    ELSE [rec EXCEPT !.Tiles[item] = @ - 1]

\* players.index(self.cur_player), 1-based
IndexOf(order, p) == CHOOSE i \in 1 .. Len(order) : order[i] = p

\* mutant: the 1-based index is advanced once more
NextPlayer_skip(order, p) == order[((IndexOf(order, p) + 1) % Len(order)) + 1]

\* players[(cur_player_idx + 1) % len(players)]
NextPlayer(order, p) == order[(IndexOf(order, p) % Len(order)) + 1]

\* mutant: the cell is written before the item is checked
play_move_early_write(position, item) ==
    /\ constructed
    /\ LET e == play_move_error(board, boardlen, players[cur_player],
                                position, item) IN
       IF e \in {"IndexError", "ValueError: already taken"}
       THEN /\ ret' = Raised("play_move", e)
            /\ UNCHANGED <<constructed, gamevars, counters>>
       ELSE IF e # "none"
       THEN /\ board' = [board EXCEPT ![CellOf(boardlen, position)] =
                                          PlacedItem(cur_player, item)]
            /\ ret' = Raised("play_move", e)
            /\ UNCHANGED <<constructed, boardlen, cur_player, players,
                           players_order, tiles, counters>>
       ELSE /\ nmoves < MaxMoves
            /\ board' = [board EXCEPT ![CellOf(boardlen, position)] =
                                          PlacedItem(cur_player, item)]
            /\ players' = [players EXCEPT ![cur_player] =
                                              RecordAfterMove(@, item)]
            /\ cur_player' = NextPlayer(players_order, cur_player)
            /\ ret' = Returned("play_move", PyNone)
            /\ nmoves' = nmoves + 1
            /\ UNCHANGED <<constructed, boardlen, players_order, tiles, nadds>>

play_move(position, item) ==
    /\ constructed
    /\ LET e == play_move_error(board, boardlen, players[cur_player],
                                position, item) IN
       IF e # "none"
       THEN /\ ret' = Raised("play_move", e)
            /\ UNCHANGED <<constructed, gamevars, counters>>
       ELSE /\ nmoves < MaxMoves
            /\ board' = [board EXCEPT ![CellOf(boardlen, position)] =
                                          PlacedItem(cur_player, item)]
            /\ players' = [players EXCEPT ![cur_player] =
                                              RecordAfterMove(@, item)]
            /\ cur_player' = NextPlayer(players_order, cur_player)
            /\ ret' = Returned("play_move", PyNone)
            /\ nmoves' = nmoves + 1
            /\ UNCHANGED <<constructed, boardlen, players_order, tiles, nadds>>

-----------------------------------------------------------------------------
(* players_score and finished *)

\* the amount a neighbouring cell adds: its value if isinstance(cell, int)
NeighbourScore(b, c) == IF b[c].kind = "int" THEN b[c].value ELSE 0

\* mutant: the neighbour at y + 1 is added twice, the one at y - 1 never
StoneScore_copied(b, n, x, y) ==
      (IF x > 0 THEN NeighbourScore(b, <<x - 1, y>>) ELSE 0)
    + (IF x < n - 1 THEN NeighbourScore(b, <<x + 1, y>>) ELSE 0)
    + (IF y < n - 1 THEN NeighbourScore(b, <<x, y + 1>>) ELSE 0)
    + (IF y < n - 1 THEN NeighbourScore(b, <<x, y + 1>>) ELSE 0)

\* what the four if statements add for the stone at (x, y)
StoneScore(b, n, x, y) ==
      (IF x > 0 THEN NeighbourScore(b, <<x - 1, y>>) ELSE 0)
    + (IF x < n - 1 THEN NeighbourScore(b, <<x + 1, y>>) ELSE 0)
    + (IF y > 0 THEN NeighbourScore(b, <<x, y - 1>>) ELSE 0)
    + (IF y < n - 1 THEN NeighbourScore(b, <<x, y + 1>>) ELSE 0)

RECURSIVE score_loop(_, _, _, _, _)
\* the loop over numpy.ndenumerate(self.board), restricted to the cells C left
score_loop(b, n, pl, sc, C) ==
    IF C = {} THEN sc
    ELSE LET c == CHOOSE c \in C : TRUE
             value == b[c]
         IN score_loop(b, n, pl,
                IF value.kind = "Player" /\ value.owner \in DOMAIN pl
                THEN [sc EXCEPT ![value.owner] = @ + StoneScore(b, n, c[1], c[2])]
                ELSE sc,
                C \ {c})

\* the dict players_score returns
players_score(b, n, pl) == score_loop(b, n, pl, [p \in DOMAIN pl |-> 0], DOMAIN b)

\* numpy.sum(self.board == numpy.array(None))
EmptyCells(b) == {c \in DOMAIN b : b[c].kind = "None"}

\* the value finished() returns
finished(b) == Cardinality(EmptyCells(b)) = 0

PlayersScore ==
    /\ constructed
    /\ ret' = Returned("players_score",
                    PyDict(players_score(board, boardlen, players)))
    /\ UNCHANGED <<constructed, gamevars, counters>>

Finished ==
    /\ constructed
    /\ ret' = Returned("finished", PyBool(finished(board)))
    /\ UNCHANGED <<constructed, gamevars, counters>>

-----------------------------------------------------------------------------
(* play_game and play_tournament *)

\* the exception play_game raises before its loop is reached, or "none":
\* the guard of line 229, then the call of reset_game with arguments that
\* reset_game(self) does not take
play_game_error(pl, player1, player2) ==
    IF ~Truthy(player1) \/ (~Truthy(player2) /\ Cardinality(DOMAIN pl) < 2)
    THEN "ValueError"
    ELSE "TypeError"

\* the outcome of play_game(n, player1, player2)
play_game(pl, n, player1, player2) ==
    Raised("play_game", play_game_error(pl, player1, player2))

PlayGame(n, player1, player2) ==
    /\ constructed
    /\ ret' = play_game(players, n, player1, player2)
    /\ UNCHANGED <<constructed, gamevars, counters>>

\* itertools.permutations(ps, 2), in the order it yields them
Permutations2(ps) ==
    LET n == Len(ps)
        pairs == {ij \in (1 .. n) \X (1 .. n) : ij[1] # ij[2]}
        rank(ij) == (ij[1] - 1) * n + ij[2]
        RECURSIVE ordered(_)
        ordered(S) ==
            IF S = {} THEN <<>>
            ELSE LET m == CHOOSE a \in S : \A o \in S : rank(a) <= rank(o)
                 IN <<<<ps[m[1]], ps[m[2]]>>>> \o ordered(S \ {m})
    IN ordered(pairs)

\* t_scores after one game with the scores game_scores
TournamentPoints(t_scores, game_scores, p1, p2) ==
    IF game_scores[p1] = game_scores[p2]
    THEN [[t_scores EXCEPT ![p1] = @ + 1] EXCEPT ![p2] = @ + 1]
    ELSE IF game_scores[p1] > game_scores[p2]
    THEN [t_scores EXCEPT ![p1] = @ + 2]
    ELSE [t_scores EXCEPT ![p2] = @ + 2]

RECURSIVE tournament_loop(_, _, _, _)
\* the for loop of play_tournament over the pairs left
tournament_loop(pl, n, pairs, t_scores) ==
    IF pairs = <<>> THEN Returned("play_tournament", PyDict(t_scores))
    ELSE LET p1 == Head(pairs)[1]
             p2 == Head(pairs)[2]
             game == play_game(pl, n, p1, p2)
         IN IF game.raised # "none"
            THEN Raised("play_tournament", game.raised)
            ELSE tournament_loop(pl, n, Tail(pairs),
                     TournamentPoints(t_scores, game.value.items, p1, p2))

\* the outcome of play_tournament(ps, n)
play_tournament(pl, ps, n) ==
    tournament_loop(pl, n, Permutations2(ps),
                    [p \in {ps[i] : i \in 1 .. Len(ps)} |-> 0])

PlayTournament(ps, n) ==
    /\ constructed
    /\ ret' = play_tournament(players, ps, n)
    /\ UNCHANGED <<constructed, gamevars, counters>>

-----------------------------------------------------------------------------
(* RandomPlayer.play *)

\* the tuple (position, item) a strategy returns
PyMove(position, item) ==
    [type |-> "tuple", truth |-> TRUE,
     items |-> [x |-> position[1], y |-> position[2], item |-> item]]

\* mutant: the switch from stones to tiles is missing
RandomPlayer_items_no_switch(rec) ==
    LET held == {k \in DOMAIN rec.Tiles : rec.Tiles[k] > 0}
        FinalPlay(play) ==
            IF play = "Tiles" /\ SumValues(rec.Tiles) = 0 THEN "Stones"
            ELSE play
        Outcome(play) ==
            IF play = "Tiles"
            THEN IF held = {}
                 THEN {[raised |-> "IndexError", item |-> 0]}
                 ELSE {[raised |-> "none", item |-> k] : k \in held}
            ELSE {[raised |-> "none", item |-> 0]}
    IN UNION {Outcome(FinalPlay(play)) : play \in {"Tiles", "Stones"}}

\* the items play can choose for a player with the record rec: random.choice
\* of 'Tiles' or 'Stones', switched when the player has none of that kind,
\* then random.choice among the tile values with a positive count (IndexError
\* on an empty list) or 0
RandomPlayer_items(rec) ==
    LET held == {k \in DOMAIN rec.Tiles : rec.Tiles[k] > 0}
        FinalPlay(play) ==
            IF play = "Tiles" /\ SumValues(rec.Tiles) = 0 THEN "Stones"
            ELSE IF play = "Stones" /\ rec.Stones = 0 THEN "Tiles"
            ELSE play
        Outcome(play) ==
            IF play = "Tiles"
            THEN IF held = {}
                 THEN {[raised |-> "IndexError", item |-> 0]}
                 ELSE {[raised |-> "none", item |-> k] : k \in held}
            ELSE {[raised |-> "none", item |-> 0]}
    IN UNION {Outcome(FinalPlay(play)) : play \in {"Tiles", "Stones"}}

\* every outcome RandomPlayer.play can have on board b for the record rec
RandomPlayer_play(b, rec) ==
    IF EmptyCells(b) = {}
    THEN {Raised("RandomPlayer.play", "IndexError")}
    ELSE {IF o.raised # "none"
          THEN Raised("RandomPlayer.play", o.raised)
          ELSE Returned("RandomPlayer.play", PyMove(c, o.item)) :
              c \in EmptyCells(b), o \in RandomPlayer_items(rec)}

\* self.cur_player.play(self.board, str(self.cur_player), {...}, ...)
RandomPlayerPlay ==
    /\ constructed
    /\ \E r \in RandomPlayer_play(board, players[cur_player]) : ret' = r
    /\ UNCHANGED <<constructed, gamevars, counters>>

-----------------------------------------------------------------------------
(* Inputs *)

\* board sizes a Game is constructed with: negative, zero, odd, valid
BoardLens == -4 .. MaxBoardLen

\* board sizes the tile supply is derived for
SupplyBoardLens == 0 .. 4 * MaxSupplyQuarter

\* arguments of Game(n, player1, player2)
Player1Args == {"P1", NoPlayer, None}

Player2Args == {"P1", "P2", NoPlayer, None}

\* arguments of add_players on a constructed game
AddPlayer1Args == {"P3", NoPlayer}

AddPlayer2Args == {"P1", None}

\* positions outside the grid that numpy rejects
OutOfRange(n) == {<<n, 0>>, <<0, -n - 1>>}

\* positions played: three corner cells, a position with a negative
\* coordinate, and positions numpy rejects
Positions(n) == {<<0, 0>>, <<0, 1>>, <<1, 0>>, <<-1, 0>>} \cup OutOfRange(n)

\* positions played in a long game: the corner block and the same others
BlockPositions(n) == ((0 .. 1) \X (0 .. 1)) \cup {<<-1, 0>>} \cup OutOfRange(n)

\* positions played around an inner cell: <<1, 1>> and its four neighbours
CrossPositions == {<<1, 1>>, <<0, 1>>, <<2, 1>>, <<1, 0>>, <<1, 2>>}

\* items played: a stone, tiles of the supply, a value outside the supply
Items == {0, 3, -2, 5}

\* lists of strategies given to play_tournament
Strategies == {<<>>, <<"P1">>, <<"P1", "P2">>, <<"P1", "P2", "P3">>}

-----------------------------------------------------------------------------
(* The game: every operation, on the smallest boards *)

Init ==
    /\ constructed = FALSE
    /\ board = EmptyBoard(0)
    /\ boardlen = 0
    /\ cur_player = None
    /\ players = <<>>
    /\ players_order = <<>>
    /\ tiles = <<>>
    /\ ret = Returned("none", PyNone)
    /\ nmoves = 0
    /\ nadds = 0

Next ==
    \/ \E n \in BoardLens, p1 \in Player1Args, p2 \in Player2Args :
           Game_init(n, p1, p2)
    \/ ResetGame
    \/ \E p1 \in AddPlayer1Args, p2 \in AddPlayer2Args : add_players(p1, p2)
    \/ \E position \in Positions(boardlen), item \in Items :
           play_move(position, item)
    \/ PlayersScore
    \/ Finished
    \/ \E p1 \in {"P1", None}, p2 \in {"P2", None} : PlayGame(boardlen, p1, p2)
    \/ \E ps \in Strategies : PlayTournament(ps, boardlen)

Spec == Init /\ [][Next]_vars

-----------------------------------------------------------------------------
(* Long games: construction and play_move only, on the corner block *)

NextMoves ==
    \/ \E n \in BoardLens, p2 \in Player2Args : Game_init(n, "P1", p2)
    \/ \E position \in BlockPositions(boardlen), item \in Items :
           play_move(position, item)

SpecMoves == Init /\ [][NextMoves]_vars

-----------------------------------------------------------------------------
(* Scoring: a two-player game on the default board, around an inner cell *)

NextScore ==
    \/ Game_init(DEFAULT_BOARDLEN, "P1", "P2")
    \/ \E position \in CrossPositions, item \in Items : play_move(position, item)
    \/ PlayersScore

SpecScore == Init /\ [][NextScore]_vars

-----------------------------------------------------------------------------
(* The tile supply: construction and registration over many board sizes *)

NextSupply ==
    \/ \E n \in SupplyBoardLens, p2 \in Player2Args : Game_init(n, "P1", p2)
    \/ ResetGame
    \/ \E p1 \in AddPlayer1Args, p2 \in AddPlayer2Args : add_players(p1, p2)

SpecSupply == Init /\ [][NextSupply]_vars

-----------------------------------------------------------------------------
(* Full games: two players fill the smallest board, each its own half *)

\* the side length of the smallest board a game is played on
FullBoardLen == 4 * (MaxBoardLen \div 4)

\* items played in a full game: a stone and every tile value of the supply
FullItems(t) == {0} \cup DOMAIN t

\* the number of tiles of rec's player that come before the next tile of
\* value v: every tile of a lower value, and the tiles of value v placed
TileRank(t, rec, v) ==
    SumOver(t, {w \in DOMAIN t : w < v}) + (t[v] - rec.Tiles[v])

\* the place of the next item in the player's half: stones first, then tiles
HomeIndex(n, t, rec, item) ==
    IF item = 0 THEN ((n * n) \div 4) - rec.Stones
    ELSE ((n * n) \div 4) + TileRank(t, rec, item)

\* the cell the player p puts its next item on: the first registered player
\* fills the upper half of the board, the second the lower half
HomeCell(n, t, order, p, rec, item) ==
    LET k == HomeIndex(n, t, rec, item)
        half == IndexOf(order, p) - 1
    IN <<half * (n \div 2) + (k \div n), k % n>>

NextFull ==
    \/ Game_init(FullBoardLen, "P1", "P2")
    \/ \E item \in FullItems(tiles) :
           play_move(HomeCell(boardlen, tiles, players_order, cur_player,
                              players[cur_player], item), item)
    \/ RandomPlayerPlay

SpecFull == Init /\ [][NextFull]_vars

-----------------------------------------------------------------------------
(* Properties *)

\* position names a cell of the grid [0, n) x [0, n)
InGrid(n, position) ==
    position[1] \in 0 .. n - 1 /\ position[2] \in 0 .. n - 1

\* the step is a call of play_move that raised / that returned
MoveRejected == ret'.op = "play_move" /\ ret'.raised # "none"

MoveAccepted == ret'.op = "play_move" /\ ret'.raised = "none"

\* C1: given two players that move legally, play_game(boardlen, player1,
\* player2) returns normally, with the board full and a score for each player.
C1_PlayGameReturnsScores ==
    [][ret'.op = "play_game" =>
          \A p1, p2 \in PlayerObjs :
              PlayGame(boardlen, p1, p2) =>
                  /\ ret'.raised = "none"
                  /\ finished(board')
                  /\ DOMAIN ret'.value.items = DOMAIN players']_vars

\* C2: a rejected play_move leaves the board, every player's Stones and Tiles
\* and cur_player exactly as they were before the call.
C2_RejectedMoveChangesNothing ==
    [][MoveRejected =>
          UNCHANGED <<board, players, players_order, cur_player, tiles,
                      boardlen>>]_vars

\* C2 witness: a move was rejected because the player has no stones left.
C2_Witness ==
    /\ ret.op = "play_move"
    /\ ret.raised = "ValueError: no stones left"
    /\ players[cur_player].Stones = 0
    /\ EmptyCells(board) # {}

\* C3: in a game with two registered players the first player of the
\* registration moves first, cur_player passes to the other player after every
\* successful play_move and stays after a failed one.
C3_TurnsAlternate ==
    [][/\ (ret'.op = "Game" /\ ret'.raised = "none") =>
              \A n \in BoardLens, p1 \in Player1Args, p2 \in Player2Args :
                  (p1 # p2 /\ Game_init(n, p1, p2)) =>
                      (cur_player' = p1 /\ players_order' = <<p1, p2>>)
       /\ (ret'.op = "add_players" /\ ret'.raised = "none"
              /\ Cardinality(DOMAIN players') = 2) =>
              \A p1 \in AddPlayer1Args, p2 \in AddPlayer2Args :
                  add_players(p1, p2) => cur_player' = p1
       /\ (Cardinality(DOMAIN players) = 2 /\ MoveAccepted) =>
              (cur_player' \in DOMAIN players /\ cur_player' # cur_player)
       /\ (Cardinality(DOMAIN players) = 2 /\ MoveRejected) =>
              cur_player' = cur_player]_vars

\* C3 witness: in a two-player game the second player has moved and the turn
\* is back with the first.
C3_Witness ==
    /\ players_order = <<"P1", "P2">>
    /\ nmoves = 2
    /\ nadds = 0
    /\ cur_player = "P1"

\* C4: a non-empty cell keeps its content in every later state, and every
\* play_move targeting it is rejected as occupied whatever the item is.
C4_PlacementPermanent ==
    [][/\ board' # board =>
              \A c \in DOMAIN board :
                  board[c] # EmptyCell =>
                      (c \in DOMAIN board' /\ board'[c] = board[c])
       /\ (ret'.op = "play_move" /\ ret'.raised # "ValueError: already taken") =>
              \A position \in Positions(boardlen), item \in Items :
                  (/\ IndexOk(boardlen, position[1])
                   /\ IndexOk(boardlen, position[2])
                   /\ board[CellOf(boardlen, position)] # EmptyCell) =>
                      ~play_move(position, item)]_vars

\* C4 witness: a move on an occupied cell was rejected as occupied.
C4_Witness ==
    /\ ret.op = "play_move"
    /\ ret.raised = "ValueError: already taken"
    /\ \E c \in DOMAIN board : board[c] # EmptyCell

\* C5: a successful play_move(position, item) writes exactly one cell (the
\* current player's stone if item is 0, else the tile item) and lowers exactly
\* one counter of the current player by 1; nothing else changes.
C5_MoveFrame ==
    [][MoveAccepted =>
          \A position \in Positions(boardlen), item \in Items :
              play_move(position, item) =>
                  LET c == CellOf(boardlen, position)
                      me == cur_player
                  IN /\ board[c] = EmptyCell
                     /\ board'[c] = (IF item = 0 THEN Stone(me) ELSE Tile(item))
                     /\ DOMAIN board' = DOMAIN board
                     /\ \A d \in DOMAIN board \ {c} : board'[d] = board[d]
                     /\ DOMAIN players' = DOMAIN players
                     /\ \A q \in DOMAIN players \ {me} : players'[q] = players[q]
                     /\ DOMAIN players'[me].Tiles = DOMAIN players[me].Tiles
                     /\ players'[me].Stones =
                            players[me].Stones - (IF item = 0 THEN 1 ELSE 0)
                     /\ \A v \in DOMAIN players[me].Tiles :
                            players'[me].Tiles[v] =
                                players[me].Tiles[v] - (IF item = v THEN 1 ELSE 0)
                     /\ tiles' = tiles
                     /\ boardlen' = boardlen]_vars

\* C5 witness: a tile was played in a game with three registered players.
C5_Witness ==
    /\ ret.op = "play_move"
    /\ ret.raised = "none"
    /\ Len(players_order) = 3
    /\ \E c \in DOMAIN board : board[c] = Tile(3)
    /\ \E q \in DOMAIN players : players[q].Tiles[3] = tiles[3] - 1

\* two cells are orthogonal neighbours
Adjacent(c, d) ==
    \/ c[1] = d[1] /\ (c[2] = d[2] + 1 \/ d[2] = c[2] + 1)
    \/ c[2] = d[2] /\ (c[1] = d[1] + 1 \/ d[1] = c[1] + 1)

\* the score of player p, summed tile by tile: each tile counts once for
\* every stone of p next to it
AdjacencyScore(b, p) ==
    LET tileCells == {d \in DOMAIN b : b[d].kind = "int"}
        stones(d) == {c \in DOMAIN b : b[c] = Stone(p) /\ Adjacent(c, d)}
        worth == [d \in tileCells |-> b[d].value * Cardinality(stones(d))]
    IN SumOver(worth, tileCells)

\* C6: players_score returns, for every registered player, the sum over its
\* stones of the values of the orthogonally adjacent tiles, in any state, and
\* changes no state.
C6_ScoreIsAdjacencySum ==
    [][ret'.op = "players_score" =>
          /\ ret'.raised = "none"
          /\ ret'.value =
                 PyDict([p \in DOMAIN players |-> AdjacencyScore(board, p)])
          /\ UNCHANGED <<constructed, gamevars>>]_vars

\* C6 witness: in an unfinished game a stone whose only adjacent tiles are
\* +3 and -2 scored 1.
C6_Witness ==
    /\ ret.op = "players_score"
    /\ ~finished(board)
    /\ board[<<1, 1>>] = Stone("P1")
    /\ board[<<0, 1>>] = Tile(3)
    /\ board[<<1, 0>>] = Tile(-2)
    /\ board[<<2, 1>>].kind # "int"
    /\ board[<<1, 2>>].kind # "int"
    /\ Cardinality({c \in DOMAIN board : board[c] = Stone("P1")}) = 1
    /\ ret.value.items["P1"] = 1

\* what is left for magnitude m: boardlen^2 / 4 minus every count assigned to
\* a smaller magnitude
RemainingFor(n, t, m) ==
    ((n * n) \div 4)
        - SumOver(t, {v \in DOMAIN t : -m < v /\ v < m})

\* C7: the tiles +m and -m both get remaining // (2 * (MAX_TILE_VALUE - m + 1)),
\* remaining being boardlen^2 / 4 minus all counts assigned so far.
C7_SupplyDerivation ==
    constructed =>
        /\ DOMAIN tiles = (-MAX_TILE_VALUE .. MAX_TILE_VALUE) \ {0}
        /\ \A m \in 1 .. MAX_TILE_VALUE :
              /\ tiles[m] = RemainingFor(boardlen, tiles, m)
                                \div (2 * (MAX_TILE_VALUE - m + 1))
              /\ tiles[-m] = tiles[m]

\* C7 witness: a board of side 12, where the magnitudes get different counts.
C7_Witness ==
    /\ constructed
    /\ boardlen = 12
    /\ tiles[1] = 4
    /\ tiles[-4] = 5

\* the supply with the same count for +m and -m
SupplyOf(c1, c2, c3, c4) ==
    [v \in (-MAX_TILE_VALUE .. MAX_TILE_VALUE) \ {0} |->
        IF v \in {1, -1} THEN c1
        ELSE IF v \in {2, -2} THEN c2
        ELSE IF v \in {3, -3} THEN c3
        ELSE c4]

\* C8 as stated: for board size 4 the magnitudes 1, 2, 3, 4 get 0, 0, 1, 2.
C8_Size4SupplyAsStated ==
    (constructed /\ boardlen = 4) => tiles = SupplyOf(0, 0, 1, 2)

\* C8 as amended: for board size 4 the magnitudes 1, 2, 3, 4 get 0, 0, 1, 1
\* (magnitude 4 gets 2 // 2 = 1: the two tiles of magnitude 3 are deducted).
C8_Size4Supply ==
    (constructed /\ boardlen = 4) => tiles = SupplyOf(0, 0, 1, 1)

\* C8 witness: a game of board size 4 was constructed.
C8_Witness ==
    /\ constructed
    /\ boardlen = 4
    /\ ret.op = "Game"
    /\ ret.raised = "none"
    /\ tiles[4] = 1

\* C9 as stated: the stones plus the tiles of one player never exceed
\* boardlen^2 / 4.
C9_ItemsWithinQuarterAsStated ==
    constructed =>
        \A p \in DOMAIN players :
            players[p].Stones + SumValues(players[p].Tiles)
                <= (boardlen * boardlen) \div 4

\* C9 as amended: at registration a player gets boardlen^2 / 4 stones and
\* tiles whose counts sum to at most boardlen^2 / 4, so its items never exceed
\* boardlen^2 / 2.
C9_ItemsWithinHalf ==
    constructed =>
        \A p \in DOMAIN players :
            /\ players[p].Stones = (boardlen * boardlen) \div 4
            /\ SumValues(players[p].Tiles) <= (boardlen * boardlen) \div 4
            /\ players[p].Stones + SumValues(players[p].Tiles)
                   <= (boardlen * boardlen) \div 2

\* C9 witness: a player registered on a board of side 8 holds 16 stones and
\* 16 tiles, 32 items.
C9_Witness ==
    /\ constructed
    /\ boardlen = 8
    /\ players["P1"].Stones = 16
    /\ SumValues(players["P1"].Tiles) = 16

\* C10: play_move fails with an out-of-range error and changes nothing for
\* every position outside the grid, negative coordinates included.
C10_OutOfGridRejected ==
    [][ret'.op = "play_move" =>
          \A position \in BlockPositions(boardlen), item \in Items :
              (~InGrid(boardlen, position) /\ play_move(position, item)) =>
                  (ret'.raised = "IndexError" /\ UNCHANGED gamevars)]_vars

\* the current player's record rec does not hold the item
LacksItem(rec, item) ==
    \/ item = 0 /\ rec.Stones = 0
    \/ item # 0 /\ item \notin DOMAIN rec.Tiles
    \/ item # 0 /\ item \in DOMAIN rec.Tiles /\ rec.Tiles[item] = 0

\* C11: a play_move on an empty cell of the grid is rejected whenever the
\* current player does not hold the item (item 0 with no stones, a nonzero
\* item that is no key of its Tiles, a nonzero item with count 0), with the
\* matching error, and succeeds in every other case.
C11_RejectedIffItemNotHeld ==
    [][ret'.op = "play_move" =>
          \A position \in BlockPositions(boardlen), item \in Items :
              (/\ InGrid(boardlen, position)
               /\ board[position] = EmptyCell
               /\ play_move(position, item)) =>
                  LET rec == players[cur_player] IN
                  /\ (ret'.raised # "none") <=> LacksItem(rec, item)
                  /\ (item = 0 /\ rec.Stones = 0) =>
                         ret'.raised = "ValueError: no stones left"
                  /\ (item # 0 /\ item \notin DOMAIN rec.Tiles) =>
                         ret'.raised = "ValueError: not a valid tile value"
                  /\ (item # 0 /\ item \in DOMAIN rec.Tiles
                          /\ rec.Tiles[item] = 0) =>
                         ret'.raised = "ValueError: no tiles with that value"]_vars

\* C11 witness: after the player's only tile of value 3 was placed, a move
\* with a tile it holds none of was rejected although empty cells remain.
C11_Witness ==
    /\ ret.op = "play_move"
    /\ ret.raised = "ValueError: no tiles with that value"
    /\ \E c \in DOMAIN board : board[c] = Tile(3)
    /\ players[cur_player].Tiles[3] = 0
    /\ EmptyCells(board) # {}

\* C12: in every reachable state every registered player's Stones count and
\* every one of its Tiles counts is at least 0.
C12_CountsNonNegative ==
    \A p \in DOMAIN players :
        /\ players[p].Stones >= 0
        /\ \A v \in DOMAIN players[p].Tiles : players[p].Tiles[v] >= 0

\* C12 witness: a player that was given stones has placed all of them and
\* has exactly none left.
C12_Witness ==
    /\ constructed
    /\ (boardlen * boardlen) \div 4 > 0
    /\ \E p \in DOMAIN players :
           /\ players[p].Stones = 0
           /\ Cardinality({c \in DOMAIN board : board[c] = Stone(p)})
                  = (boardlen * boardlen) \div 4

\* n is a positive multiple of 4
PositiveMultipleOf4(n) == n > 0 /\ n % 4 = 0

\* C13: constructing a game fails for every board size that is not a positive
\* multiple of 4 (0 and negative sizes included); for a positive multiple of 4
\* (and two players) it yields a boardlen x boardlen board with every cell
\* empty.
C13_OnlyPositiveMultiplesOf4 ==
    [][ret'.op = "Game" =>
          \A n \in BoardLens, p1 \in Player1Args, p2 \in Player2Args :
              Game_init(n, p1, p2) =>
                  /\ ~PositiveMultipleOf4(n) =>
                         (ret'.raised # "none" /\ ~constructed')
                  /\ (PositiveMultipleOf4(n) /\ HasPlay(p1) /\ HasPlay(p2)) =>
                         /\ ret'.raised = "none"
                         /\ boardlen' = n
                         /\ DOMAIN board' = (0 .. n - 1) \X (0 .. n - 1)
                         /\ \A c \in DOMAIN board' : board'[c] = EmptyCell]_vars

\* C14: Game(boardlen) with a valid board size and no players constructs a
\* game of that size with every cell empty, and a following reset_game() and
\* add_players(player1, player2) leave the size and the empty board and
\* register both players.
C14_ConstructedWithoutPlayers ==
    [][/\ ret'.op = "Game" =>
              \A n \in BoardLens :
                  (PositiveMultipleOf4(n) /\ Game_init(n, None, None)) =>
                      /\ ret'.raised = "none"
                      /\ constructed'
                      /\ boardlen' = n
                      /\ \A c \in DOMAIN board' : board'[c] = EmptyCell
       /\ ret'.op = "reset_game" => UNCHANGED <<boardlen, board>>
       /\ ret'.op = "add_players" =>
              \A p1 \in AddPlayer1Args, p2 \in AddPlayer2Args :
                  (HasPlay(p1) /\ HasPlay(p2) /\ add_players(p1, p2)) =>
                      /\ UNCHANGED <<boardlen, board>>
                      /\ {p1, p2} \subseteq DOMAIN players']_vars

\* C15: add_players(player1, player2) raises ValueError when either argument
\* has no play method, whichever it is, and then registers nobody: the
\* players mapping, every record and cur_player are unchanged.
C15_InvalidPlayerRegistersNobody ==
    [][ret'.op = "add_players" =>
          \A p1 \in AddPlayer1Args, p2 \in AddPlayer2Args :
              (add_players(p1, p2) /\ (~HasPlay(p1) \/ ~HasPlay(p2))) =>
                  /\ ret'.raised = "ValueError"
                  /\ UNCHANGED <<players, players_order, cur_player>>]_vars

\* C15 witness: add_players was rejected on a two-player game in which moves
\* were played, and the second player is still to move.
C15_Witness ==
    /\ ret.op = "add_players"
    /\ ret.raised = "ValueError"
    /\ players_order = <<"P1", "P2">>
    /\ nmoves > 0
    /\ cur_player = "P2"
    /\ players["P1"] # players["P2"]

\* C16: registering fails when fewer than 2 distinct players are supplied
\* (the same player given twice is rejected), so no game has a single
\* registered player.
C16_SamePlayerTwiceRejected ==
    [][/\ ret'.op = "Game" =>
              \A n \in BoardLens, p1 \in Player1Args, p2 \in Player2Args :
                  (PositiveMultipleOf4(n) /\ p1 = p2 /\ Game_init(n, p1, p2)) =>
                      (ret'.raised # "none" /\ ~constructed')
       /\ ret'.op = "add_players" =>
              \A p1 \in AddPlayer1Args, p2 \in AddPlayer2Args :
                  (p1 = p2 /\ add_players(p1, p2)) =>
                      (ret'.raised # "none" /\ UNCHANGED players)
       /\ (constructed' /\ boardlen' > 0) =>
              Cardinality(DOMAIN players') >= 2]_vars

\* C17: after every successful add_players(p1, p2) on a two-player game,
\* whatever was registered or played before, the turn order is exactly [p1, p2], cur_player is p1,
\* and every registered player's record is a copy of the freshly derived
\* initial supply.
C17_RegistrationStartsAfresh ==
    [][(/\ ret'.op = "add_players"
        /\ ret'.raised = "none"
        /\ boardlen > 0
        /\ Cardinality(DOMAIN players) = 2) =>
          \A p1 \in AddPlayer1Args, p2 \in AddPlayer2Args :
              add_players(p1, p2) =>
                  /\ players_order' = <<p1, p2>>
                  /\ cur_player' = p1
                  /\ \A q \in DOMAIN players' :
                         players'[q] =
                             InitialRecord(boardlen, reset_game(boardlen))]_vars

\* a game on a real board with two players registered
TwoPlayerGame ==
    constructed /\ boardlen > 0 /\ Cardinality(DOMAIN players) = 2

\* the strategies of the list ps
StrategySet(ps) == {ps[i] : i \in 1 .. Len(ps)}

\* C18: play_tournament over n strategies plays one game for every ordered
\* pair of distinct strategies, n * (n - 1) games (2 games for 2 strategies),
\* and returns the totals, which started at 0; every game hands out 2 points,
\* so the totals returned sum to 2 * n * (n - 1).
C18_TournamentPlaysEveryOrderedPair ==
    [][(TwoPlayerGame /\ ret'.op = "play_tournament") =>
          \A ps \in Strategies :
              PlayTournament(ps, boardlen) =>
                  /\ ret'.raised = "none"
                  /\ Len(Permutations2(ps)) = Len(ps) * (Len(ps) - 1)
                  /\ DOMAIN ret'.value.items = StrategySet(ps)
                  /\ \A p \in StrategySet(ps) : ret'.value.items[p] >= 0
                  /\ SumValues(ret'.value.items)
                         = 2 * Len(ps) * (Len(ps) - 1)]_vars

\* the totals t after a game of p1 and p2 with the given outcome, as the
\* claim words it: a point each for equal scores, else two for the higher
PointsAfter(t, p1, p2, outcome) ==
    [p \in DOMAIN t |->
        t[p] + (IF outcome = "equal" /\ p \in {p1, p2} THEN 1
                ELSE IF outcome = "first higher" /\ p = p1 THEN 2
                ELSE IF outcome = "second higher" /\ p = p2 THEN 2
                ELSE 0)]

Outcomes == {"equal", "first higher", "second higher"}

\* C19: a tournament of two strategies returns totals that come from 0 by
\* two updates, one per game: +1 each for equal scores, else +2 for the
\* strictly higher score and +0 for the other (4 and 0 if one wins both
\* games, 2 and 2 if each wins one).
C19_TournamentTotals ==
    [][(TwoPlayerGame /\ ret'.op = "play_tournament") =>
          \A ps \in Strategies :
              (Len(ps) = 2 /\ PlayTournament(ps, boardlen)) =>
                  /\ ret'.raised = "none"
                  /\ \E o1, o2 \in Outcomes :
                         ret'.value.items =
                             PointsAfter(
                                 PointsAfter([p \in StrategySet(ps) |-> 0],
                                             ps[1], ps[2], o1),
                                 ps[2], ps[1], o2)]_vars

\* C20: every game of a tournament is started, and starts from a fresh
\* state: an empty board of the given size, exactly the two strategies
\* registered in their order with the first to move, and full initial
\* records. play_game writes nothing before its loop, so the state the game
\* starts from is the state of the call.
C20_TournamentGamesStartFresh ==
    [][(TwoPlayerGame /\ ret'.op = "play_tournament") =>
          \A ps \in Strategies :
              PlayTournament(ps, boardlen) =>
                  \A i \in 1 .. Len(Permutations2(ps)) :
                      LET p1 == Permutations2(ps)[i][1]
                          p2 == Permutations2(ps)[i][2]
                      IN /\ play_game(players, boardlen, p1, p2).raised = "none"
                         /\ board = EmptyBoard(boardlen)
                         /\ players_order = <<p1, p2>>
                         /\ cur_player = p1
                         /\ \A q \in {p1, p2} :
                                players[q] =
                                    InitialRecord(boardlen,
                                                  reset_game(boardlen))]_vars

\* the errors play_move raises for a tile the current player does not hold
TileErrors ==
    {"ValueError: not a valid tile value", "ValueError: no tiles with that value"}

\* C21: a tournament in which a strategy answers its first turn with a tile
\* value it does not possess fails with the error play_move raises for that
\* tile; the turn is not skipped, no other move is applied and no totals are
\* returned.
C21_IllegalTileFailsTournament ==
    [][(TwoPlayerGame /\ ret'.op = "play_tournament") =>
          \A ps \in Strategies :
              (Len(ps) >= 2 /\ PlayTournament(ps, boardlen)) =>
                  /\ ret'.raised \in TileErrors
                  /\ ret'.value = PyNone
                  /\ UNCHANGED <<board, players, cur_player>>]_vars

\* the number of items the record rec holds
ItemsHeld(rec) == rec.Stones + SumValues(rec.Tiles)

\* C22: in a game of two distinct players driven by play_move, whenever
\* finished() is false the current player holds a stone or a tile with a
\* positive count and some play_move succeeds; finished() is true exactly
\* after boardlen^2 successful moves.
C22_NoDeadlock ==
    TwoPlayerGame =>
        /\ ~finished(board) =>
               /\ \/ players[cur_player].Stones > 0
                  \/ \E v \in DOMAIN players[cur_player].Tiles :
                         players[cur_player].Tiles[v] > 0
               /\ \E position \in DOMAIN board, item \in FullItems(tiles) :
                      play_move_error(board, boardlen, players[cur_player],
                                      position, item) = "none"
        /\ finished(board) <=> nmoves = boardlen * boardlen

\* C22 witness: one cell is left and the player to move holds exactly one
\* item.
C22_Witness ==
    /\ TwoPlayerGame
    /\ nmoves = boardlen * boardlen - 1
    /\ Cardinality(EmptyCells(board)) = 1
    /\ ItemsHeld(players[cur_player]) = 1

\* the number of cells of b that hold content
CellsHolding(b, content) == Cardinality({c \in DOMAIN b : b[c] = content})

\* C23: in every state reached from construction by play_move calls, the
\* cells holding a player's stone number its initial Stones minus its
\* remaining Stones, the cells holding tile value v number the sum over the
\* players of initial minus remaining Tiles[v], and the occupied cells number
\* the successful play_move calls.
C23_Conservation ==
    constructed =>
        /\ \A p \in DOMAIN players :
               CellsHolding(board, Stone(p)) =
                   InitialRecord(boardlen, tiles).Stones - players[p].Stones
        /\ \A v \in DOMAIN tiles :
               CellsHolding(board, Tile(v)) =
                   SumOver([p \in DOMAIN players |->
                               InitialRecord(boardlen, tiles).Tiles[v]
                                   - players[p].Tiles[v]],
                           DOMAIN players)
        /\ Cardinality(DOMAIN board \ EmptyCells(board)) = nmoves

\* C23 witness: both players have placed a stone and a tile of value 3 is
\* on the board.
C23_Witness ==
    /\ constructed
    /\ players_order = <<"P1", "P2">>
    /\ CellsHolding(board, Stone("P1")) >= 1
    /\ CellsHolding(board, Stone("P2")) >= 1
    /\ CellsHolding(board, Tile(3)) >= 1
    /\ nmoves >= 3

\* C24: for every board size that is a positive multiple of 4 the derived
\* tile counts sum to exactly boardlen^2 / 4, each player starts with
\* boardlen^2 / 4 stones and boardlen^2 / 4 tiles, and two players together
\* hold boardlen^2 items, one per cell.
C24_SupplyFillsBoard ==
    (constructed /\ PositiveMultipleOf4(boardlen)) =>
        /\ SumValues(tiles) = (boardlen * boardlen) \div 4
        /\ \A p \in DOMAIN players :
               /\ players[p].Stones = (boardlen * boardlen) \div 4
               /\ SumValues(players[p].Tiles) = (boardlen * boardlen) \div 4
        /\ Cardinality(DOMAIN players) = 2 =>
               /\ SumOver([p \in DOMAIN players |-> ItemsHeld(players[p])],
                          DOMAIN players) = boardlen * boardlen
               /\ boardlen * boardlen = Cardinality(DOMAIN board)

\* C24 witness: on a board of side 12, where the magnitudes get 4, 4, 5 and
\* 5 tiles, two players hold 144 items.
C24_Witness ==
    /\ constructed
    /\ boardlen = 12
    /\ players_order = <<"P1", "P2">>
    /\ ItemsHeld(players["P1"]) + ItemsHeld(players["P2"]) = 144
    /\ Cardinality(DOMAIN board) = 144

\* C25: in every non-finished state of a game between two distinct players
\* every move RandomPlayer.play returns for the current player is legal: its
\* position is an empty cell, its item is 0 while the player has a stone left
\* or a tile value with a positive count, and play_move accepts it.
C25_RandomPlayerMovesLegal ==
    [][(ret'.op = "RandomPlayer.play" /\ TwoPlayerGame /\ ~finished(board)) =>
          /\ ret'.raised = "none"
          /\ LET move == ret'.value.items
                 position == <<move.x, move.y>>
                 rec == players[cur_player]
             IN /\ InGrid(boardlen, position)
                /\ board[position] = EmptyCell
                /\ \/ move.item = 0 /\ rec.Stones > 0
                   \/ /\ move.item # 0
                      /\ move.item \in DOMAIN rec.Tiles
                      /\ rec.Tiles[move.item] > 0
                /\ play_move_error(board, boardlen, rec, position, move.item)
                       = "none"]_vars

\* C25 witness: RandomPlayer.play returned a tile for a player that has no
\* stone left, on a board with empty cells.
C25_Witness ==
    /\ TwoPlayerGame
    /\ ret.op = "RandomPlayer.play"
    /\ ret.raised = "none"
    /\ ~finished(board)
    /\ players[cur_player].Stones = 0
    /\ ret.value.items.item # 0

====
